---- MODULE Spec2Model ----
(***************************************************************************)
(* Movie catalog service: the create / update / delete / read handlers of  *)
(* routes/movies.py and the request schemas of schemas/movies.py, over a   *)
(* relational store of movies, countries, genres, actors and languages.    *)
(*                                                                         *)
(* Floats are modelled by integers, calendar dates by day numbers, and an  *)
(* Optional[T] value by a sequence of length at most one (<<>> is None).   *)
(* HTTP outcomes are their status codes.                                   *)
(***************************************************************************)
EXTENDS Integers, Sequences, FiniteSets, TLC

\* ------------------------------------------------------------------ bounds
MaxToday == 1
MaxMovieId == 2
MaxRefId == 3
MaxRequests == 3

\* --------------------------------------------------------------- constants
YearDays == 365
MaxNameLen == 255
ScoreMin == 0
ScoreMax == 100
MoneyMin == 0
CodeMinLen == 2
CodeMaxLen == 3
PathMin == 1

\* ---------------------------------------------------------------- Optional
None == <<>>
Some(v) == <<v>>

\* --------------------------------------------------------- schemas/movies.py

\* A name that stands for a string of 256 characters.
LongName == "N256"
StrLen(s) == IF s = LongName THEN 256 ELSE Len(s)

\* Mutant: the ceiling one day too late.
validate_movie_date_late(v, today) ==
    IF v # None THEN ~(v[1] > today + YearDays + 1) ELSE TRUE

\* validate_movie_date: TRUE when no ValueError is raised.
validate_movie_date(v, today) ==
    IF v # None THEN ~(v[1] > today + YearDays) ELSE TRUE

MovieStatus == {"Released", "Post Production", "In Production"}

\* The storage enumeration MovieStatusEnum carries the same literals.
MovieStatusEnum == {"Released", "Post Production", "In Production"}

\* Characters of country codes: str.isalpha and str.upper, per character.
Lower == {"u", "s", "f", "r"}
Upper == {"U", "S", "F", "R"}
isalpha(ch) == ch \in Lower \cup Upper
upper_ch(ch) ==
    CASE ch = "u" -> "U"
      [] ch = "s" -> "S"
      [] ch = "f" -> "F"
      [] ch = "r" -> "R"
      [] OTHER -> ch
upper(code) == [i \in 1..Len(code) |-> upper_ch(code[i])]
str_isalpha(code) == Len(code) > 0 /\ \A i \in 1..Len(code) : isalpha(code[i])

\* validate_country_code: TRUE when no ValueError is raised.
validate_country_code(v) ==
    ~(~(CodeMinLen <= Len(v) /\ Len(v) <= CodeMaxLen) \/ ~str_isalpha(v))

\* MovieCreateSchema: TRUE when the payload passes every field's validation.
MovieCreateSchemaOk(p, today) ==
    /\ StrLen(p.name) <= MaxNameLen
    /\ validate_movie_date(Some(p.date), today)
    /\ p.score >= ScoreMin /\ p.score <= ScoreMax
    /\ p.status \in MovieStatus
    /\ p.budget >= MoneyMin
    /\ p.revenue >= MoneyMin
    /\ Len(p.country) >= CodeMinLen /\ Len(p.country) <= CodeMaxLen
    /\ validate_country_code(p.country)

\* MovieCreateSchema: the validated payload (the country code upper-cased).
MovieCreateSchema(p) == [p EXCEPT !.country = upper(p.country)]

Has(u, f) == f \in DOMAIN u
IsSet(u, f) == Has(u, f) /\ u[f] # None

\* MovieUpdateSchema: TRUE when the patch passes validation. A field given
\* as null passes (Optional); exclude_unset keeps it in the dumped patch.
MovieUpdateSchemaOk(u, today) ==
    /\ IsSet(u, "name") => StrLen(u["name"][1]) <= MaxNameLen
    /\ Has(u, "date") => validate_movie_date(u["date"], today)
    /\ IsSet(u, "score") => u["score"][1] >= ScoreMin /\ u["score"][1] <= ScoreMax
    /\ IsSet(u, "status") => u["status"][1] \in MovieStatus
    /\ IsSet(u, "budget") => u["budget"][1] >= MoneyMin
    /\ IsSet(u, "revenue") => u["revenue"][1] >= MoneyMin

\* ------------------------------------------------------------- the store

RefKinds == {"countries", "genres", "actors", "languages"}
LinkKinds == {"genres", "actors", "languages"}

\* Rows of a table are a function from the generated id to the row.
EmptyRows == [countries |-> <<>>, genres |-> <<>>, actors |-> <<>>,
              languages |-> <<>>]
EmptyLinks == [genres |-> {}, actors |-> {}, languages |-> {}]
EmptyDb == [movies |-> <<>>, refs |-> EmptyRows, links |-> EmptyLinks]

\* select(model).filter_by(key): the ids of the rows with that natural key.
Select(table, key) == {id \in DOMAIN table : table[id] = key}

\* What a session sees: the committed rows and its own flushed rows.
Visible(c, own, kind) == own[kind] @@ c.refs[kind]

\* The store keeps one Country row per code and one Genre, Actor and Language
\* row per name (a uniqueness constraint of the table).
UniqueKeyOk(table, key) == Select(table, key) = {}

\* Mutant: a movies table without the (name, date) constraint.
MovieKeyOk_unconstrained(movies, name, date) == TRUE

\* The store keeps one Movie row per (name, date).
MovieKeyOk(movies, name, date) ==
    ~\E id \in DOMAIN movies : movies[id].name = name /\ movies[id].date = date

\* An association table's primary key is (movie_id, entity_id): the rows of
\* one INSERT batch must be pairwise different.
AssocPkOk(ids) == \A i, j \in 1..Len(ids) : ids[i] = ids[j] => i = j

\* Movie columns are NOT NULL.
NotNullOk(u) == \A f \in DOMAIN u : u[f] # None

\* ------------------------------------------------- routes/movies.py: create

\* Mutant: get_or_create commits its row instead of flushing it.
flush_commit(c, own) ==
    [db |-> [c EXCEPT !.refs = [k \in RefKinds |-> own[k] @@ c.refs[k]]],
     own |-> EmptyRows]

\* await db.flush(): the session's new rows are written inside its open
\* transaction; the committed store is as it was.
flush(c, own) == [db |-> c, own |-> own]

\* A request that ends in an exception never commits: closing its session
\* rolls back what it flushed.
rollback(own) == EmptyRows

\* An INSERT of a key waits while another open transaction holds an
\* uncommitted row with that key.
HeldByOther(others, kind, key) == \E o \in others : key \in {o[kind][x] : x \in DOMAIN o[kind]}

\* get_or_create, the lookup: select(model).filter_by(**kwargs), then
\* scalar_one_or_none(), which raises when more than one row matches.
Lookup(c, own, kind, key) ==
    LET found == Select(Visible(c, own, kind), key) IN
    IF Cardinality(found) > 1 THEN [err |-> "MultipleResultsFound", id |-> 0]
    ELSE IF found # {} THEN [err |-> "", id |-> CHOOSE i \in found : TRUE]
    ELSE [err |-> "", id |-> 0]

\* get_or_create, the insert: model(**kwargs), db.add, await db.flush(). The
\* row gets the table's next id and is checked against the uniqueness constraint.
InsertRow(c, own, sq, kind, key) ==
    LET sq2 == [sq EXCEPT ![kind] = @ + 1] IN
    IF ~UniqueKeyOk(Visible(c, own, kind), key)
    THEN [err |-> "IntegrityError", own |-> own, seq |-> sq2, id |-> 0]
    ELSE [err |-> "", own |-> [own EXCEPT ![kind] = (sq[kind] :> key) @@ @],
          seq |-> sq2, id |-> sq[kind]]

\* Mutant: get_or_create without the lookup.
get_or_create_insert(c, own, sq, kind, key) == InsertRow(c, own, sq, kind, key)

\* get_or_create(model, **kwargs): the existing row, else a new flushed row.
get_or_create(c, own, sq, kind, key) ==
    LET l == Lookup(c, own, kind, key) IN
    IF l.err # "" THEN [err |-> l.err, own |-> own, seq |-> sq, id |-> 0]
    ELSE IF l.id # 0 THEN [err |-> "", own |-> own, seq |-> sq, id |-> l.id]
    ELSE InsertRow(c, own, sq, kind, key)

\* What create_movie holds while it resolves its reference entities: the
\* exception raised so far, the rows its session flushed, the id sequences,
\* the country row's id and the ids of the rows of each list.
Resolving(err, own, sq, country_id, ids) ==
    [err |-> err, own |-> own, seq |-> sq, country_id |-> country_id, ids |-> ids]

NoIds == [genres |-> <<>>, actors |-> <<>>, languages |-> <<>>]

\* The country of create_movie: looked up by code, else a new flushed row.
resolve_country(c, own, sq, code) ==
    LET l == Lookup(c, own, "countries", code) IN
    IF l.err # "" THEN Resolving(l.err, own, sq, 0, NoIds)
    ELSE IF l.id # 0 THEN Resolving("", own, sq, l.id, NoIds)
    ELSE LET x == InsertRow(c, own, sq, "countries", code) IN
         Resolving(x.err, x.own, x.seq, x.id, NoIds)

\* [await get_or_create(Model, name=n) for n in names]: one call per element,
\* in order, until one raises.
RECURSIVE resolve_list(_, _, _, _)
resolve_list(c, s, kind, names) ==
    IF s.err # "" \/ names = <<>> THEN s
    ELSE LET r == get_or_create(c, s.own, s.seq, kind, Head(names)) IN
         resolve_list(c,
                      Resolving(r.err, r.own, r.seq, s.country_id,
                                IF r.err = ""
                                THEN [s.ids EXCEPT ![kind] = Append(@, r.id)]
                                ELSE s.ids),
                      kind, Tail(names))

\* MovieModel(...): the row of the new movie.
MovieRow(d, country_id) ==
    [name |-> d.name, date |-> d.date, score |-> d.score,
     overview |-> d.overview, status |-> d.status, budget |-> d.budget,
     revenue |-> d.revenue, country_id |-> country_id]

\* movie.<kind>.extend(rows): one association row per element of the list.
AssocRows(mid, ids) == {<<mid, ids[i]>> : i \in 1..Len(ids)}

\* db.add(movie); await db.commit(): the movie row and its association rows
\* are inserted and everything the session flushed becomes visible.
commit_movie(c, own, sq, d, country_id, ids) ==
    LET mid == sq.movies
        sq2 == [sq EXCEPT !.movies = @ + 1]
    IN  IF ~MovieKeyOk(c.movies, d.name, d.date)
        THEN [err |-> "IntegrityError", db |-> c, seq |-> sq2, id |-> 0]
        ELSE IF \E k \in LinkKinds : ~AssocPkOk(ids[k])
        THEN [err |-> "IntegrityError", db |-> c, seq |-> sq2, id |-> 0]
        ELSE [err |-> "",
              db |-> [movies |-> (mid :> MovieRow(d, country_id)) @@ c.movies,
                      refs |-> [k \in RefKinds |-> own[k] @@ c.refs[k]],
                      links |-> [k \in LinkKinds |->
                                   c.links[k] \cup AssocRows(mid, ids[k])]],
              seq |-> sq2, id |-> mid]

\* Mutant: create_movie without the duplicate check.
existing_movie_never(c, d) == FALSE

\* The duplicate check of create_movie.
existing_movie(c, d) ==
    \E id \in DOMAIN c.movies :
        c.movies[id].name = d.name /\ c.movies[id].date = d.date

Response(status, c, sq, id) == [status |-> status, db |-> c, seq |-> sq, id |-> id]

\* The end of create_movie: the movie is built from the resolved rows and
\* committed. An exception the handler does not catch is a 500 and the
\* session is rolled back.
add_and_commit(c, d, s) ==
    IF s.err # "" THEN Response(500, c, s.seq, 0)
    ELSE LET cm == commit_movie(c, s.own, s.seq, d, s.country_id, s.ids) IN
         IF cm.err # "" THEN Response(500, c, cm.seq, 0)
         ELSE Response(201, cm.db, cm.seq, cm.id)

\* The handler of create_movie on its validated body.
create_valid(c, sq, d) ==
    IF existing_movie(c, d) THEN Response(409, c, sq, 0)
    ELSE add_and_commit(c, d,
            resolve_list(c,
                resolve_list(c,
                    resolve_list(c, resolve_country(c, EmptyRows, sq, d.country),
                                 "genres", d.genres),
                    "actors", d.actors),
                "languages", d.languages))

\* create_movie run to its end with no other request in between.
create_movie(c, sq, today, p) ==
    IF ~MovieCreateSchemaOk(p, today) THEN Response(422, c, sq, 0)
    ELSE create_valid(c, sq, MovieCreateSchema(p))

\* ------------------------------------------------- routes/movies.py: update

ScalarFields == {"name", "date", "score", "overview", "status", "budget", "revenue"}

\* The handler's own checks of the dumped patch, in the order of the code:
\* 0 when all pass, else the status of the failure. Comparing None with a
\* number or a date, or len(None), raises TypeError: a 500.
update_checks(u, today) ==
    IF Has(u, "score") /\ u["score"] = None THEN 500
    ELSE IF Has(u, "score") /\ (u["score"][1] < ScoreMin \/ u["score"][1] > ScoreMax) THEN 400
    ELSE IF Has(u, "budget") /\ u["budget"] = None THEN 500
    ELSE IF Has(u, "budget") /\ u["budget"][1] < MoneyMin THEN 400
    ELSE IF Has(u, "revenue") /\ u["revenue"] = None THEN 500
    ELSE IF Has(u, "revenue") /\ u["revenue"][1] < MoneyMin THEN 400
    ELSE IF Has(u, "status") /\ u["status"] = None THEN 400
    ELSE IF Has(u, "status") /\ u["status"][1] \notin MovieStatusEnum THEN 400
    ELSE IF Has(u, "date") /\ u["date"] = None THEN 500
    ELSE IF Has(u, "date") /\ u["date"][1] > today + YearDays THEN 400
    ELSE IF Has(u, "name") /\ u["name"] = None THEN 500
    ELSE IF Has(u, "name") /\ StrLen(u["name"][1]) > MaxNameLen THEN 400
    ELSE 0

\* Mutant: "if value: setattr(...)", which skips a value that is falsy.
apply_patch_truthy(row, u) ==
    [f \in DOMAIN row |->
        IF f \in DOMAIN u
           /\ ~(f \in {"score", "budget", "revenue", "date"} /\ u[f][1] = 0)
        THEN u[f][1] ELSE row[f]]

\* for field, value in update_data.items(): setattr(movie, field, value)
apply_patch(row, u) ==
    [f \in DOMAIN row |-> IF f \in DOMAIN u THEN u[f][1] ELSE row[f]]

\* await db.commit() of update_movie: the UPDATE of the movie's row.
commit_update(c, movie_id, u) ==
    LET row == apply_patch(c.movies[movie_id], u)
        others == [i \in DOMAIN c.movies \ {movie_id} |-> c.movies[i]]
    IN  IF ~MovieKeyOk(others, row.name, row.date)
        THEN [err |-> "IntegrityError", db |-> c]
        ELSE [err |-> "", db |-> [c EXCEPT !.movies = (movie_id :> row) @@ others]]

\* Mutant: the movie is loaded before the empty patch is refused.
update_movie_load_first(c, today, movie_id, u) ==
    IF ~MovieUpdateSchemaOk(u, today) THEN [status |-> 422, db |-> c]
    ELSE IF movie_id \notin DOMAIN c.movies THEN [status |-> 404, db |-> c]
    ELSE IF DOMAIN u = {} THEN [status |-> 400, db |-> c]
    ELSE IF update_checks(u, today) # 0 THEN [status |-> update_checks(u, today), db |-> c]
    ELSE IF ~NotNullOk(u) THEN [status |-> 500, db |-> c]
    ELSE LET r == commit_update(c, movie_id, u) IN
         IF r.err # "" THEN [status |-> 500, db |-> c]
         ELSE [status |-> 200, db |-> r.db]

\* update_movie: the body is validated by MovieUpdateSchema before the
\* handler runs; the handler refuses an empty patch, loads the movie, checks
\* the fields, assigns them and commits.
update_movie(c, today, movie_id, u) ==
    IF ~MovieUpdateSchemaOk(u, today) THEN [status |-> 422, db |-> c]
    ELSE IF DOMAIN u = {} THEN [status |-> 400, db |-> c]
    ELSE IF movie_id \notin DOMAIN c.movies THEN [status |-> 404, db |-> c]
    ELSE IF update_checks(u, today) # 0 THEN [status |-> update_checks(u, today), db |-> c]
    ELSE IF ~NotNullOk(u) THEN [status |-> 500, db |-> c]
    ELSE LET r == commit_update(c, movie_id, u) IN
         IF r.err # "" THEN [status |-> 500, db |-> c]
         ELSE [status |-> 200, db |-> r.db]

\* ------------------------------------------------- routes/movies.py: delete

\* Mutant: the movie row is deleted and its association rows are left.
delete_movie_keep_links(c, movie_id) ==
    IF movie_id < PathMin THEN [status |-> 422, db |-> c]
    ELSE IF movie_id \notin DOMAIN c.movies THEN [status |-> 404, db |-> c]
    ELSE [status |-> 204,
          db |-> [c EXCEPT
                    !.movies = [i \in DOMAIN c.movies \ {movie_id} |-> c.movies[i]]]]

\* await db.delete(movie); await db.commit(): the row and its association rows.
delete_movie(c, movie_id) ==
    IF movie_id < PathMin THEN [status |-> 422, db |-> c]
    ELSE IF movie_id \notin DOMAIN c.movies THEN [status |-> 404, db |-> c]
    ELSE [status |-> 204,
          db |-> [c EXCEPT
                    !.movies = [i \in DOMAIN c.movies \ {movie_id} |-> c.movies[i]],
                    !.links = [k \in LinkKinds |->
                                 {l \in c.links[k] : l[1] # movie_id}]]]

\* -------------------------------------------------- routes/movies.py: reads

\* selectinload of a relationship: the rows the association table names.
Related(c, kind, movie_id) ==
    {[id |-> l[2], name |-> c.refs[kind][l[2]]] :
        l \in {x \in c.links[kind] : x[1] = movie_id /\ x[2] \in DOMAIN c.refs[kind]}}

\* MovieDetailSchema of a stored movie.
MovieDetail(c, movie_id) ==
    LET m == c.movies[movie_id] IN
    [id |-> movie_id, name |-> m.name, date |-> m.date, score |-> m.score,
     overview |-> m.overview, status |-> m.status, budget |-> m.budget,
     revenue |-> m.revenue,
     country |-> IF m.country_id \in DOMAIN c.refs.countries
                 THEN Some([id |-> m.country_id,
                            code |-> c.refs.countries[m.country_id],
                            name |-> None])
                 ELSE None,
     genres |-> Related(c, "genres", movie_id),
     actors |-> Related(c, "actors", movie_id),
     languages |-> Related(c, "languages", movie_id)]

get_movie_details(c, movie_id) ==
    IF movie_id < PathMin THEN [status |-> 422, body |-> None]
    ELSE IF movie_id \notin DOMAIN c.movies THEN [status |-> 404, body |-> None]
    ELSE [status |-> 200, body |-> Some(MovieDetail(c, movie_id))]

\* order_by(MovieModel.id.desc())
RECURSIVE IdsDesc(_)
IdsDesc(S) ==
    IF S = {} THEN <<>>
    ELSE LET m == CHOOSE x \in S : \A y \in S : y <= x IN <<m>> \o IdsDesc(S \ {m})

\* get_movies: the ids of the requested page, newest first.
get_movies(c, page, per_page) ==
    LET total_items == Cardinality(DOMAIN c.movies)
        total_pages == (total_items + per_page - 1) \div per_page
        offset == (page - 1) * per_page
        all == IdsDesc(DOMAIN c.movies)
        last_ix == IF offset + per_page < Len(all) THEN offset + per_page ELSE Len(all)
    IN  IF total_items = 0 \/ page > total_pages
        THEN [status |-> 404, movies |-> <<>>, prev_page |-> None,
              next_page |-> None, total_pages |-> total_pages,
              total_items |-> total_items]
        ELSE [status |-> 200, movies |-> SubSeq(all, offset + 1, last_ix),
              prev_page |-> IF page > 1 THEN Some(page - 1) ELSE None,
              next_page |-> IF page < total_pages THEN Some(page + 1) ELSE None,
              total_pages |-> total_pages, total_items |-> total_items]

\* ------------------------------------------------------------ request inputs

Restrict(v, F) == [f \in F |-> v[f]]

PatchA == [name |-> Some("Heat"), date |-> Some(365), score |-> Some(100),
           overview |-> Some("o2"), status |-> Some("In Production"),
           budget |-> Some(7), revenue |-> Some(7)]
PatchB == [name |-> Some("Dune"), date |-> Some(366), score |-> Some(50),
           overview |-> Some("o1"), status |-> Some("Released"),
           budget |-> Some(0), revenue |-> Some(0)]

\* One field, with a value the schema or the handler refuses, or null.
BadPatches ==
    {[f \in {"score"} |-> v] : v \in {Some(-1), Some(101), None}}
    \cup {[f \in {"budget"} |-> v] : v \in {Some(-1), None}}
    \cup {[f \in {"revenue"} |-> v] : v \in {Some(-1), None}}
    \cup {[f \in {"status"} |-> v] : v \in {Some("Bogus"), None}}
    \cup {[f \in {"date"} |-> v] : v \in {Some(367), None}}
    \cup {[f \in {"name"} |-> v] : v \in {Some(LongName), None}}
    \cup {[f \in {"overview"} |-> v] : v \in {None}}

\* The patches every reachable state is probed with: every subset of the
\* fields with one set of values, one and two fields with another, and the
\* refused ones.
Patches ==
    {Restrict(PatchA, F) : F \in SUBSET ScalarFields}
    \cup {Restrict(PatchB, F) : F \in {G \in SUBSET ScalarFields : Cardinality(G) <= 2}}
    \cup BadPatches
    \cup {[PatchA EXCEPT !["score"] = Some(101)], [PatchB EXCEPT !["budget"] = None]}

Payload(n, d, country, g, a, l) ==
    [name |-> n, date |-> d, score |-> 0, overview |-> "o1",
     status |-> "Released", budget |-> 0, revenue |-> 0,
     country |-> country, genres |-> g, actors |-> a, languages |-> l]

Rich(p) ==
    [p EXCEPT !.score = 100, !.overview = "o2", !.status = "In Production",
              !.budget = 7, !.revenue = 7]

\* One scalar field changed, to an accepted or to a refused value.
Vary(p) ==
    {p, Rich(p)}
    \cup {[p EXCEPT !.score = v] : v \in {-1, 100, 101}}
    \cup {[p EXCEPT !.budget = v] : v \in {-1, 7}}
    \cup {[p EXCEPT !.revenue = v] : v \in {-1, 7}}
    \cup {[p EXCEPT !.status = v] : v \in {"Post Production", "Bogus"}}
    \cup {[p EXCEPT !.name = v] : v \in {LongName}}
    \cup {[p EXCEPT !.country = v] :
            v \in {<<"u", "1">>, <<"u">>, <<"u", "s", "f", "r">>, <<"F", "r">>,
                   <<"u", "s", "r">>}}

GenreLists == {<<>>, <<"Noir">>, <<"Drama">>, <<"Noir", "Drama">>,
               <<"Drama", "Noir">>, <<"Noir", "Noir">>}
ActorLists == {<<>>, <<"Al">>, <<"Al", "Al">>}
LanguageLists == {<<>>, <<"En">>}

\* The create payloads every reachable state is probed with.
Payloads ==
    Vary(Payload("Dune", 365, <<"u", "s">>, <<"Noir">>, <<>>, <<>>))
    \cup Vary(Payload("Heat", 366, <<"U", "S">>, <<"Drama">>, <<"Al">>, <<"En">>))
    \cup {Payload(n, d, <<"f", "r">>, <<>>, <<>>, <<>>) :
            n \in {"Dune", "Heat"}, d \in {365, 366, 367}}
    \cup {Payload("Heat", 365, <<"u", "s">>, g, a, l) :
            g \in GenreLists, a \in ActorLists, l \in LanguageLists}

MovieIds == 0..(MaxMovieId + 1)
Pages == 1..(MaxMovieId + 1)
PerPages == 1..MaxMovieId

\* The requests that drive the machine from state to state.
P1 == Payload("Dune", 365, <<"u", "s">>, <<"Noir">>, <<>>, <<>>)
P2 == Rich(Payload("Heat", 365, <<"U", "S">>, <<"Noir", "Drama">>, <<"Al">>, <<"En">>))
P4 == Payload("Heat", 365, <<"u", "s">>, <<"Noir", "Noir">>, <<>>, <<>>)
P5 == [P1 EXCEPT !.score = 101]
P6 == [P1 EXCEPT !.score = 100, !.country = <<"f", "r">>, !.genres = <<>>]

RunPayloads == {P1, P2, P4, P5, P6}

RunPatches ==
    {<<>>, Restrict(PatchB, {"score"}), Restrict(PatchA, {"name"})}

\* ------------------------------------------------ concurrent request inputs

Q1 == Payload("Dune", 365, <<"u", "s">>, <<"Noir", "Drama">>, <<"Al">>, <<>>)
Q2 == Payload("Heat", 365, <<"f", "r">>, <<"Drama", "Noir">>, <<>>, <<"En">>)
Q3 == Payload("Dune", 365, <<"U", "S">>, <<"Noir">>, <<"Al">>, <<"En">>)

\* The create requests that run concurrently.
RacePayloads == {Q1, Q2, Q3}
Sessions == {"s1", "s2"}

\* ------------------------------------------------------------- the machine

\* db: the committed store; seq: the next id of every table; today: the
\* calendar day; sess: the open create requests, one session each.
\* History: written (the day each movie's date was written), last (the last
\* request run alone and its answer), started (create requests so far),
\* pending (reference rows flushed by a create that has not committed),
\* payloadOf (the validated payload and the request each stored movie was
\* created from).
VARIABLES db, seq, today, written, last, sess, started, pending, payloadOf

vars == <<db, seq, today, written, last, sess, started, pending, payloadOf>>

Idle ==
    [pc |-> "idle", d |-> <<>>, own |-> EmptyRows, country_id |-> 0,
     ids |-> [genres |-> <<>>, actors |-> <<>>, languages |-> <<>>],
     kind |-> "genres", i |-> 1, status |-> 0, cause |-> "", at |-> <<>>,
     rid |-> 0, id |-> 0]

Init ==
    /\ db = EmptyDb
    /\ seq = [movies |-> 1, countries |-> 1, genres |-> 1, actors |-> 1,
              languages |-> 1]
    /\ today = 0
    /\ written = <<>>
    /\ last = [op |-> "none", status |-> 0, id |-> 0, input |-> <<>>, day |-> 0]
    /\ sess = [r \in Sessions |-> Idle]
    /\ started = 0
    /\ pending = {}
    /\ payloadOf = <<>>

SeqInBounds(sq) ==
    /\ sq.movies <= MaxMovieId + 1
    /\ \A k \in RefKinds : sq[k] <= MaxRefId + 1

\* ---- requests run one after another, each to its end

Create(p) ==
    LET r == create_movie(db, seq, today, p) IN
    /\ SeqInBounds(r.seq)
    /\ db' = r.db
    /\ seq' = r.seq
    /\ written' = IF r.status = 201 THEN (r.id :> today) @@ written ELSE written
    /\ last' = [op |-> "create", status |-> r.status, id |-> r.id, input |-> p,
                day |-> today]
    /\ UNCHANGED <<today, sess, started, pending, payloadOf>>

Update(movie_id, u) ==
    LET r == update_movie(db, today, movie_id, u) IN
    /\ db' = r.db
    /\ written' = IF r.status = 200 /\ Has(u, "date")
                  THEN (movie_id :> today) @@ written ELSE written
    /\ last' = [op |-> "update", status |-> r.status, id |-> movie_id, input |-> u,
                day |-> today]
    /\ UNCHANGED <<seq, today, sess, started, pending, payloadOf>>

Delete(movie_id) ==
    LET r == delete_movie(db, movie_id) IN
    /\ db' = r.db
    /\ written' = [i \in DOMAIN written \cap DOMAIN r.db.movies |-> written[i]]
    /\ last' = [op |-> "delete", status |-> r.status, id |-> movie_id,
                input |-> <<>>, day |-> today]
    /\ UNCHANGED <<seq, today, sess, started, pending, payloadOf>>

\* A day passes.
Tick ==
    /\ today < MaxToday
    /\ today' = today + 1
    /\ UNCHANGED <<db, seq, written, last, sess, started, pending, payloadOf>>

Next ==
    \/ \E p \in RunPayloads : Create(p)
    \/ \E movie_id \in MovieIds, u \in RunPatches : Update(movie_id, u)
    \/ \E movie_id \in MovieIds : Delete(movie_id)
    \/ Tick

Spec == Init /\ [][Next]_vars

\* ---- create requests run concurrently, one step per await of create_movie

Others(r) ==
    {sess[o].own : o \in {x \in Sessions \ {r} : sess[x].pc \notin {"idle", "done"}}}

\* The next list element to resolve after position (kind, i), or the commit.
After(s, kind, i) ==
    LET order == <<"genres", "actors", "languages">>
        pos == CHOOSE n \in 1..3 : order[n] = kind
        later == {n \in (pos + 1)..3 : Len(s.d[order[n]]) > 0}
    IN  IF i < Len(s.d[kind]) THEN [s EXCEPT !.pc = "lookup", !.i = i + 1]
        ELSE IF later = {} THEN [s EXCEPT !.pc = "commit"]
        ELSE [s EXCEPT !.pc = "lookup", !.i = 1,
                       !.kind = order[CHOOSE n \in later : \A m \in later : n <= m]]

\* The unhandled exception: a 500, and the session is closed.
Raise(s, cause) ==
    [s EXCEPT !.pc = "done", !.status = 500, !.cause = cause, !.own = rollback(@)]

Other(r, s) == [sess EXCEPT ![r] = s]

\* The request arrives and its body passes MovieCreateSchema.
Begin(r, p) ==
    /\ sess[r].pc = "idle"
    /\ started < MaxRequests
    /\ MovieCreateSchemaOk(p, today)
    /\ started' = started + 1
    /\ sess' = Other(r, [Idle EXCEPT !.pc = "check", !.d = MovieCreateSchema(p),
                                     !.rid = started + 1])
    /\ UNCHANGED <<db, seq, today, written, last, pending, payloadOf>>

\* The duplicate check.
CheckExisting(r) ==
    /\ sess[r].pc = "check"
    /\ sess' = Other(r, IF existing_movie(db, sess[r].d)
                        THEN [sess[r] EXCEPT !.pc = "done", !.status = 409]
                        ELSE [sess[r] EXCEPT !.pc = "country"])
    /\ UNCHANGED <<db, seq, today, written, last, started, pending, payloadOf>>

\* select(CountryModel).where(code == ...)
CountryLookup(r) ==
    LET s == sess[r]
        l == Lookup(db, s.own, "countries", s.d.country)
    IN  /\ s.pc = "country"
        /\ sess' = Other(r, IF l.err # "" THEN Raise(s, l.err)
                            ELSE IF l.id = 0 THEN [s EXCEPT !.pc = "country_insert"]
                            ELSE After([s EXCEPT !.country_id = l.id], "genres", 0))
        /\ UNCHANGED <<db, seq, today, written, last, started, pending, payloadOf>>

\* CountryModel(code=...); db.add; await db.flush()
CountryInsert(r) ==
    LET s == sess[r]
        x == InsertRow(db, s.own, seq, "countries", s.d.country)
        f == flush(db, x.own)
    IN  /\ s.pc = "country_insert"
        /\ ~HeldByOther(Others(r), "countries", s.d.country)
        /\ SeqInBounds(x.seq)
        /\ seq' = x.seq
        /\ IF x.err # ""
           THEN /\ sess' = Other(r, Raise([s EXCEPT !.at = <<"countries", s.d.country>>],
                                          "unique"))
                /\ UNCHANGED <<db, pending>>
           ELSE /\ sess' = Other(r, After([s EXCEPT !.own = f.own, !.country_id = x.id],
                                          "genres", 0))
                /\ db' = f.db
                /\ pending' = pending \cup {<<"countries", x.id>>}
        /\ UNCHANGED <<today, written, last, started, payloadOf>>

\* get_or_create: select(model).filter_by(name=...)
RefLookup(r) ==
    LET s == sess[r]
        l == Lookup(db, s.own, s.kind, s.d[s.kind][s.i])
    IN  /\ s.pc = "lookup"
        /\ sess' = Other(r, IF l.err # "" THEN Raise(s, l.err)
                            ELSE IF l.id = 0 THEN [s EXCEPT !.pc = "insert"]
                            ELSE After([s EXCEPT !.ids[s.kind] = Append(@, l.id)],
                                       s.kind, s.i))
        /\ UNCHANGED <<db, seq, today, written, last, started, pending, payloadOf>>

\* get_or_create: model(name=...); db.add; await db.flush()
RefInsert(r) ==
    LET s == sess[r]
        x == InsertRow(db, s.own, seq, s.kind, s.d[s.kind][s.i])
        f == flush(db, x.own)
    IN  /\ s.pc = "insert"
        /\ ~HeldByOther(Others(r), s.kind, s.d[s.kind][s.i])
        /\ SeqInBounds(x.seq)
        /\ seq' = x.seq
        /\ IF x.err # ""
           THEN /\ sess' = Other(r, Raise([s EXCEPT !.at = <<s.kind, s.d[s.kind][s.i]>>],
                                          "unique"))
                /\ UNCHANGED <<db, pending>>
           ELSE /\ sess' = Other(r, After([s EXCEPT !.own = f.own,
                                                    !.ids[s.kind] = Append(@, x.id)],
                                          s.kind, s.i))
                /\ db' = f.db
                /\ pending' = pending \cup {<<s.kind, x.id>>}
        /\ UNCHANGED <<today, written, last, started, payloadOf>>

\* db.add(movie); await db.commit()
Commit(r) ==
    LET s == sess[r]
        cm == commit_movie(db, s.own, seq, s.d, s.country_id, s.ids)
    IN  /\ s.pc = "commit"
        /\ SeqInBounds(cm.seq)
        /\ seq' = cm.seq
        /\ IF cm.err # ""
           THEN /\ sess' = Other(r, Raise(s, "commit"))
                /\ UNCHANGED <<db, pending, payloadOf>>
           ELSE /\ sess' = Other(r, [s EXCEPT !.pc = "done", !.status = 201,
                                              !.id = cm.id, !.own = EmptyRows])
                /\ db' = cm.db
                /\ pending' = {e \in pending : e[2] \notin DOMAIN s.own[e[1]]}
                /\ payloadOf' = (cm.id :> [d |-> s.d, rid |-> s.rid]) @@ payloadOf
        /\ UNCHANGED <<today, written, last, started>>

\* Two requests each wait for a row the other holds: the store aborts one.
Deadlock(r) ==
    LET s == sess[r]
        Waits(a, b) ==
            /\ sess[a].pc \in {"insert", "country_insert"}
            /\ sess[b].pc \notin {"idle", "done"}
            /\ LET k == IF sess[a].pc = "insert" THEN sess[a].kind ELSE "countries"
                   key == IF sess[a].pc = "insert" THEN sess[a].d[k][sess[a].i]
                          ELSE sess[a].d.country
               IN  HeldByOther({sess[b].own}, k, key)
    IN  /\ \E o \in Sessions \ {r} : Waits(r, o) /\ Waits(o, r)
        /\ sess' = Other(r, Raise(s, "deadlock"))
        /\ UNCHANGED <<db, seq, today, written, last, started, pending, payloadOf>>

\* The store fails or the request is cancelled at an await.
Abort(r) ==
    /\ sess[r].pc \notin {"idle", "done"}
    /\ sess' = Other(r, Raise(sess[r], "aborted"))
    /\ UNCHANGED <<db, seq, today, written, last, started, pending, payloadOf>>

\* The answer is sent; the worker takes the next request.
Respond(r) ==
    /\ sess[r].pc = "done"
    /\ sess' = Other(r, Idle)
    /\ UNCHANGED <<db, seq, today, written, last, started, pending, payloadOf>>

NextConc ==
    \E r \in Sessions :
        \/ \E p \in RacePayloads : Begin(r, p)
        \/ CheckExisting(r)
        \/ CountryLookup(r)
        \/ CountryInsert(r)
        \/ RefLookup(r)
        \/ RefInsert(r)
        \/ Commit(r)
        \/ Deadlock(r)
        \/ Abort(r)
        \/ Respond(r)

SpecConc == Init /\ [][NextConc]_vars

\* ================================================================ the claims

Range(f) == {f[x] : x \in DOMAIN f}
ValidationFailure == {400, 422}

\* The rules of the specification, stated on their own.
KeyStored(c, n, d) ==
    \E id \in DOMAIN c.movies : c.movies[id].name = n /\ c.movies[id].date = d
InBounds(score, budget, revenue, status) ==
    /\ 0 <= score /\ score <= 100
    /\ budget >= 0
    /\ revenue >= 0
    /\ status \in {"Released", "Post Production", "In Production"}
Letters == {"u", "s", "f", "r", "U", "S", "F", "R"}
CodeOk(code) ==
    Len(code) \in {2, 3} /\ \A i \in 1..Len(code) : code[i] \in Letters
PayloadValid(p, t) ==
    /\ InBounds(p.score, p.budget, p.revenue, p.status)
    /\ p.date <= t + 365
    /\ p.name # LongName
    /\ CodeOk(p.country)
PayloadBreaksBounds(p, t) ==
    ~InBounds(p.score, p.budget, p.revenue, p.status) \/ p.date > t + 365
Given(u, f) == f \in DOMAIN u /\ u[f] # <<>>
PatchBreaksBounds(u, t) ==
    \/ Given(u, "score") /\ (u["score"][1] < 0 \/ u["score"][1] > 100)
    \/ Given(u, "budget") /\ u["budget"][1] < 0
    \/ Given(u, "revenue") /\ u["revenue"][1] < 0
    \/ Given(u, "status")
         /\ u["status"][1] \notin {"Released", "Post Production", "In Production"}
    \/ Given(u, "date") /\ u["date"][1] > t + 365
PatchValid(u, t) ==
    ~PatchBreaksBounds(u, t) /\ ~(Given(u, "name") /\ u["name"][1] = LongName)
NoDuplicateKey(c) ==
    \A i, j \in DOMAIN c.movies :
        (c.movies[i].name = c.movies[j].name /\ c.movies[i].date = c.movies[j].date)
            => i = j
UniqueRefs(c) ==
    \A k \in RefKinds : \A i, j \in DOMAIN c.refs[k] :
        c.refs[k][i] = c.refs[k][j] => i = j
StoredBoundsOk(c, w) ==
    \A id \in DOMAIN c.movies :
        /\ InBounds(c.movies[id].score, c.movies[id].budget, c.movies[id].revenue,
                    c.movies[id].status)
        /\ id \in DOMAIN w
        /\ c.movies[id].date <= w[id] + 365
LinksOf(c, id) == [k \in LinkKinds |-> {l \in c.links[k] : l[1] = id}]

C3_OneRowPerKey ==
    /\ UniqueRefs(db)
    /\ \A k \in LinkKinds : \A l1, l2 \in db.links[k] :
          /\ l1[2] \in DOMAIN db.refs[k]
          /\ db.refs[k][l1[2]] = db.refs[k][l2[2]] => l1[2] = l2[2]
    /\ \A p \in Payloads :
          LET r == create_movie(db, seq, today, p)
              d == [p EXCEPT !.country = upper(p.country)]
              named == [k \in RefKinds |->
                          IF k = "countries" THEN {d.country} ELSE Range(d[k])]
          IN  /\ UniqueRefs(r.db)
              /\ \A k \in RefKinds :
                    /\ \A id \in DOMAIN db.refs[k] :
                          id \in DOMAIN r.db.refs[k] /\ r.db.refs[k][id] = db.refs[k][id]
                    /\ \A id \in DOMAIN r.db.refs[k] \ DOMAIN db.refs[k] :
                          /\ r.db.refs[k][id] \notin Range(db.refs[k])
                          /\ r.db.refs[k][id] \in named[k]
                    /\ r.seq[k] - seq[k] <= Cardinality(named[k] \ Range(db.refs[k]))
              /\ r.status = 201 =>
                    /\ r.db.refs.countries[r.db.movies[r.id].country_id] = d.country
                    /\ \A k \in LinkKinds : \A key \in named[k] :
                          \E id \in DOMAIN r.db.refs[k] :
                              r.db.refs[k][id] = key /\ <<r.id, id>> \in r.db.links[k]

\* C3 witness: a create succeeded and two movies are linked to the one row
\* of genre "Noir".
C3_Witness ==
    /\ last.op = "create" /\ last.status = 201
    /\ \E l1, l2 \in db.links.genres :
          l1[1] # l2[1] /\ l1[2] = l2[2] /\ db.refs.genres[l1[2]] = "Noir"

\* C4 (as claimed): every create that passes validation and whose
\* (name, date) is not stored (so that it is not answered Conflict) succeeds,
\* repeated names in its lists included, and a detail read of the returned
\* id yields what was submitted.
C4_CreateThenDetail ==
    (last.op = "create" /\ PayloadValid(last.input, last.day) /\ last.status # 409) =>
        LET b == get_movie_details(db, last.id) IN
        /\ last.status = 201
        /\ b.status = 200
        /\ \A f \in ScalarFields : b.body[1][f] = last.input[f]
        /\ b.body[1].country # None
        /\ b.body[1].country[1].code = upper(last.input.country)
        /\ {x.name : x \in b.body[1].genres} = Range(last.input.genres)
        /\ {x.name : x \in b.body[1].actors} = Range(last.input.actors)
        /\ {x.name : x \in b.body[1].languages} = Range(last.input.languages)

\* C5: a successful update overwrites exactly the fields of the patch with
\* the submitted values and changes nothing else in the store.
C5_UpdateFrame ==
    \A id \in MovieIds, u \in Patches :
        LET r == update_movie(db, today, id, u) IN
        r.status = 200 =>
            /\ id \in DOMAIN db.movies
            /\ DOMAIN r.db.movies = DOMAIN db.movies
            /\ \A f \in ScalarFields :
                  r.db.movies[id][f] = IF f \in DOMAIN u THEN u[f][1]
                                       ELSE db.movies[id][f]
            /\ r.db.movies[id].country_id = db.movies[id].country_id
            /\ \A j \in DOMAIN db.movies \ {id} : r.db.movies[j] = db.movies[j]
            /\ r.db.refs = db.refs
            /\ r.db.links = db.links

\* C5 witness: the update {"score": 50} succeeded on one of two stored movies.
C5_Witness ==
    /\ last.op = "update" /\ last.status = 200
    /\ last.input = [f \in {"score"} |-> Some(50)]
    /\ Cardinality(DOMAIN db.movies) = 2
    /\ db.movies[last.id].score = 50
    /\ db.movies[last.id].budget = 7

\* C6: every stored movie is within the bounds, its date at most 365 days
\* after the day it was written; a create or update that would break a bound
\* is a validation failure that leaves the store as it was; a date of
\* today + 365 is accepted.
C6_FieldBounds ==
    /\ StoredBoundsOk(db, written)
    /\ \A p \in Payloads :
          LET r == create_movie(db, seq, today, p) IN
          /\ PayloadBreaksBounds(p, today) =>
                r.status \in ValidationFailure /\ r.db = db /\ r.seq = seq
          /\ r.status = 201 => StoredBoundsOk(r.db, (r.id :> today) @@ written)
          /\ (PayloadValid(p, today) /\ p.date = today + 365) =>
                r.status \notin ValidationFailure
    /\ \A id \in MovieIds, u \in Patches :
          LET r == update_movie(db, today, id, u) IN
          /\ PatchBreaksBounds(u, today) =>
                r.status \in ValidationFailure /\ r.db = db
          /\ r.status = 200 =>
                StoredBoundsOk(r.db, IF Has(u, "date") THEN (id :> today) @@ written
                                     ELSE written)
          /\ (id \in DOMAIN db.movies /\ u = [f \in {"date"} |-> Some(today + 365)]) =>
                r.status \notin ValidationFailure

\* C6 witness: a create was refused as invalid while a stored movie carries
\* a date exactly 365 days after the day it was written.
C6_Witness ==
    /\ last.op = "create" /\ last.status = 422
    /\ \E id \in DOMAIN db.movies : db.movies[id].date = written[id] + 365

C8_RaceYieldsConflict ==
    \A r \in Sessions :
        (sess[r].pc = "done" /\ sess[r].cause = "unique") =>
            LET k == sess[r].at[1]
                rows == Select(db.refs[k], sess[r].at[2])
            IN  /\ sess[r].status = 409
                /\ Cardinality(rows) = 1
                /\ \A m \in DOMAIN payloadOf : payloadOf[m].rid # sess[r].rid
                /\ \E m \in DOMAIN db.movies :
                      IF k = "countries" THEN db.movies[m].country_id \in rows
                      ELSE \E x \in rows : <<m, x>> \in db.links[k]

\* C9: a create becomes visible at once, at its commit: every stored movie
\* has its country and every association its payload names, no reference
\* row flushed by a create that has not committed (one in progress, or one
\* that failed) is in the committed store, and a create that did not succeed
\* has no movie row.
C9_AtomicCreate ==
    /\ \A m \in DOMAIN db.movies :
          /\ m \in DOMAIN payloadOf
          /\ db.movies[m].country_id \in DOMAIN db.refs.countries
          /\ db.refs.countries[db.movies[m].country_id] = payloadOf[m].d.country
          /\ \A k \in LinkKinds :
                /\ \A l \in db.links[k] : l[1] = m => l[2] \in DOMAIN db.refs[k]
                /\ {db.refs[k][l[2]] : l \in {x \in db.links[k] : x[1] = m}}
                      = Range(payloadOf[m].d[k])
    /\ \A e \in pending : e[2] \notin DOMAIN db.refs[e[1]]
    /\ \A k \in LinkKinds : \A l \in db.links[k] : l[1] \in DOMAIN db.movies
    /\ \A r \in Sessions :
          (sess[r].pc # "idle" /\ sess[r].status # 201) =>
              \A m \in DOMAIN payloadOf : payloadOf[m].rid # sess[r].rid

\* C9 witness: a create failed after it had flushed a reference row, while
\* another create holds flushed rows of its own and a movie is stored.
C9_Witness ==
    \E r \in Sessions :
        /\ sess[r].pc = "done" /\ sess[r].status = 500
        /\ sess[r].cause \in {"aborted", "commit"}
        /\ sess[r].country_id # 0
        /\ pending # {}
        /\ DOMAIN db.movies # {}
        /\ \E o \in Sessions \ {r} : sess[o].own # EmptyRows

====
